---- MODULE Spec2Model ----
(***************************************************************************)
(* SystemMonitorAgent (src/System_Agents.py): the CPU monitoring loop of   *)
(* monitor_cpu, run by one thread, with stop_monitoring called from a      *)
(* second thread and KeyboardInterrupt delivered to the running thread.    *)
(*                                                                         *)
(* Percentages are integers counting 1/Unit of a percent.  With Unit a     *)
(* power of two every such value is an exact binary float, so the float    *)
(* comparison and subtraction of the code are the integer ones here.       *)
(* Values printed with the format .1f are integers counting tenths.        *)
(* Time is counted in whole seconds of time.sleep.                         *)
(*                                                                         *)
(* BitcoinPriceAgent (src/Bitcoin_price.py): one call of                   *)
(* fetch_bitcoin_price at a time, from the HTTP request to the line it     *)
(* prints.                                                                 *)
(***************************************************************************)
EXTENDS Integers, Sequences, FiniteSets

\* ---- bounds of the model ------------------------------------------------
Unit == 32          \* resolution of a percentage: 1/Unit percent
MaxRuns == 2        \* invocations of monitor_cpu on the instance
MaxCycles == 2      \* samples taken over the life of the instance
MaxStops == 1       \* calls of stop_monitoring
SeqCycles == 3      \* samples of a run without stop, interrupt or error
MaxQueries == 1     \* calls of monitor_memory and of get_system_info by others
MaxFetches == 2     \* calls of fetch_bitcoin_price

\* cpu_threshold arguments of __init__: 10% (main, line 176) and 1/Unit of a
\* percent below 15%
Thresholds == {10 * Unit, 15 * Unit - 1}
\* check_interval arguments of __init__, in seconds (none is refused)
Intervals == {-1, 0, 2}
\* values psutil.cpu_percent may return: 5%, 10%, 15%
Samples == {5 * Unit, 10 * Unit, 15 * Unit}

VARIABLES
    cpu_threshold,   \* self.cpu_threshold
    check_interval,  \* self.check_interval
    is_monitoring,   \* self.is_monitoring
    pc,              \* position of the thread that calls monitor_cpu
    cpu_usage,       \* local cpu_usage of monitor_cpu
    slept,           \* seconds of the current time.sleep already elapsed
    log,             \* what has been printed, in order
    outcome,         \* how the last invocation of monitor_cpu ended
    runs,            \* invocations of monitor_cpu so far
    stops,           \* calls of stop_monitoring so far
    stopAt,          \* pc when stop_monitoring was last called in this invocation
    afterStop,       \* Normal/Alert events printed since that call
    sampled,         \* values psutil.cpu_percent returned in this invocation
    snapshots,       \* get_system_info calls of the current monitor_system
    queries,         \* monitor_memory / get_system_info calls by other callers
    btc_pc,          \* position of the caller of fetch_bitcoin_price
    response,        \* what requests.get produced for the current call
    btc_out,         \* lines fetch_bitcoin_price has printed in the current call
    fetches          \* calls of fetch_bitcoin_price so far

vars == <<cpu_threshold, check_interval, is_monitoring, pc, cpu_usage, slept,
          log, outcome, runs, stops, stopAt, afterStop, sampled, snapshots,
          queries, btc_pc, response, btc_out, fetches>>

config == <<cpu_threshold, check_interval>>
ghost == <<stopAt, afterStop>>
aux == <<snapshots, queries>>
btc == <<btc_pc, response, btc_out, fetches>>
\* everything of the SystemMonitorAgent instance and of its callers
monitor == <<cpu_threshold, check_interval, is_monitoring, pc, cpu_usage, slept,
             log, outcome, runs, stops, stopAt, afterStop, sampled, snapshots,
             queries>>

\* positions inside the try block of monitor_cpu (one cycle: lines 50-62)
InLoop == {"loop_top", "sample", "compare", "sleep"}
\* positions inside an invocation of monitor_cpu
InRun == {"entered"} \cup InLoop

\* ---- pure helpers ---------------------------------------------------------

\* format(x, ".1f") of a non-negative x: the nearest tenth, ties to even
\* (the value is exact, so the correctly rounded result is this one)
Fmt1Nat(n) ==
    LET q == (n * 10) \div Unit
        r == (n * 10) % Unit
    IN  IF 2 * r < Unit THEN q
        ELSE IF 2 * r > Unit THEN q + 1
        ELSE IF q % 2 = 0 THEN q ELSE q + 1

Fmt1(n) == IF n >= 0 THEN Fmt1Nat(n) ELSE 0 - Fmt1Nat(0 - n)

\* line 56: cpu_usage > self.cpu_threshold
ExceedsThresholdOrEqual(s, t) == s >= t
ExceedsThreshold(s, t) == s > t

\* line 87: cpu_usage - self.cpu_threshold
ExcessReversed(s, t) == t - s
Excess(s, t) == s - t

Entry(k, s, sh, ex, c) ==
    [kind |-> k, sample |-> s, shown |-> sh, excess |-> ex, cause |-> c]

\* lines 83-88: the alert block printed by alert_high_cpu
ExcessShown(s, t) == Fmt1(Excess(s, t))
alert_high_cpu(s) ==
    Entry("Alert", s, Fmt1(s), ExcessShown(s, cpu_threshold), "")

\* line 59: the "CPU usage normal" line
NormalEvent(s) == Entry("Normal", s, Fmt1(s), 0, "")

IsEvent(e) == e.kind \in {"Normal", "Alert"}

RECURSIVE CountEvents(_)
CountEvents(s) ==
    IF s = <<>> THEN 0
    ELSE (IF IsEvent(Head(s)) THEN 1 ELSE 0) + CountEvents(Tail(s))

\* JSON values as response.json() returns them: dict, float, None
JObj(f) == [type |-> "object", fields |-> f]
JNum(n) == [type |-> "number", value |-> n]
JNull == [type |-> "null"]
\* an exception raised while an expression is evaluated
Raised(e) == [type |-> "raised", error |-> e]

\* v[k] (line 46): KeyError when the dict has no key k, TypeError when v is
\* no dict; an exception raised further left is the result
Lookup(v, k) ==
    IF v.type = "raised" THEN v
    ELSE IF v.type # "object" THEN Raised("TypeError")
    ELSE IF k \notin DOMAIN v.fields THEN Raised("KeyError")
    ELSE v.fields[k]

\* what requests.get has produced: nothing yet, an exception, or a response
\* with its status code and its body (well formed JSON or not)
Resp(k, st, wf, d) == [kind |-> k, status |-> st, well_formed |-> wf, data |-> d]
NoResponse == Resp("none", 0, TRUE, JNull)

\* rate_float values, status codes and bodies the API may answer with
Prices == {64000, 65000}
Statuses == {200, 404, 500}
Bodies ==
    {JObj([bpi |-> JObj([USD |-> JObj([rate_float |-> JNum(p)])])]) : p \in Prices}
    \cup {JObj([bpi |-> JObj([USD |-> JObj([rate_float |-> JNull])])]),
          JObj([bpi |-> JObj([USD |-> JObj([rate |-> JNum(1)])])]),
          JObj([bpi |-> JObj([EUR |-> JObj([rate_float |-> JNum(1)])])]),
          JObj([error |-> JNum(1)]),
          JObj([bpi |-> JNull]),
          JNull}

\* ---- construction ---------------------------------------------------------

\* __init__ (lines 30-36): stores both arguments as given
Init ==
    /\ cpu_threshold \in Thresholds
    /\ check_interval \in Intervals
    /\ is_monitoring = FALSE
    /\ pc = "idle"
    /\ cpu_usage = 0
    /\ slept = 0
    /\ log = <<>>
    /\ outcome = "none"
    /\ runs = 0
    /\ stops = 0
    /\ stopAt = "none"
    /\ afterStop = 0
    /\ sampled = <<>>
    /\ snapshots = 0
    /\ queries = 0
    /\ btc_pc = "idle"
    /\ response = NoResponse
    /\ btc_out = <<>>
    /\ fetches = 0

\* ---- the thread running monitor_cpu ---------------------------------------

\* a caller enters monitor_cpu (line 38; main -> monitor_system -> line 161)
Call ==
    /\ pc \in {"idle", "returned", "raised"}
    /\ runs < MaxRuns
    /\ pc' = "entered"
    /\ runs' = runs + 1
    /\ outcome' = "none"
    /\ stopAt' = "none"
    /\ afterStop' = 0
    /\ sampled' = <<>>
    /\ snapshots' = 0
    /\ UNCHANGED <<config, queries, btc, is_monitoring, cpu_usage, slept, log, stops>>

\* lines 45-47: set the flag, print the two start lines, enter the try block
StartKeepsFlag ==
    /\ pc = "entered"
    /\ log' = Append(log, Entry("Start", 0, 0, 0, ""))
    /\ pc' = "loop_top"
    /\ UNCHANGED <<config, aux, btc, is_monitoring, cpu_usage, slept, outcome, runs,
                   stops, ghost, sampled>>
Start ==
    /\ pc = "entered"
    /\ is_monitoring' = TRUE
    /\ log' = Append(log, Entry("Start", 0, 0, 0, ""))
    /\ pc' = "loop_top"
    /\ UNCHANGED <<config, aux, btc, cpu_usage, slept, outcome, runs, stops, ghost, sampled>>

\* line 50: the while condition
LoopConditionAlways == TRUE
LoopCondition == is_monitoring

\* line 50: one evaluation of the while condition; a false one leaves the
\* try block and monitor_cpu returns
LoopTop ==
    /\ pc = "loop_top"
    /\ IF LoopCondition
         THEN /\ pc' = "sample"
              /\ UNCHANGED outcome
         ELSE /\ pc' = "returned"
              /\ outcome' = "stopped"
    /\ UNCHANGED <<config, aux, btc, is_monitoring, cpu_usage, slept, log, runs, stops, ghost, sampled>>

\* lines 64-66: except KeyboardInterrupt
HandleKeyboardInterruptUncaught ==
    /\ pc' = "raised"
    /\ outcome' = "uncaught"
    /\ UNCHANGED <<is_monitoring, log>>
HandleKeyboardInterruptKeepsFlag ==
    /\ log' = Append(log, Entry("Cancelled", 0, 0, 0, "interrupt"))
    /\ pc' = "returned"
    /\ outcome' = "interrupted"
    /\ UNCHANGED is_monitoring
HandleKeyboardInterrupt ==
    /\ log' = Append(log, Entry("Cancelled", 0, 0, 0, "interrupt"))
    /\ is_monitoring' = FALSE
    /\ pc' = "returned"
    /\ outcome' = "interrupted"

\* lines 67-69: except Exception as e
HandleExceptionPrintsCancelled(c) ==
    /\ log' = Append(log, Entry("Cancelled", 0, 0, 0, c))
    /\ is_monitoring' = FALSE
    /\ pc' = "returned"
    /\ outcome' = "error"
HandleExceptionKeepsFlag(c) ==
    /\ log' = Append(log, Entry("Error", 0, 0, 0, c))
    /\ pc' = "returned"
    /\ outcome' = "error"
    /\ UNCHANGED is_monitoring
HandleException(c) ==
    /\ log' = Append(log, Entry("Error", 0, 0, 0, c))
    /\ is_monitoring' = FALSE
    /\ pc' = "returned"
    /\ outcome' = "error"

\* lines 52-53: psutil.cpu_percent(interval=1) returns a value (at most n
\* samples are taken over the life of the instance)
SampleCpuRequeries(n) ==
    /\ pc = "sample"
    /\ CountEvents(log) < n
    /\ \E s \in Samples :
          /\ cpu_usage' = s
          /\ sampled' = Append(sampled, s)
    /\ snapshots' = snapshots + 1
    /\ pc' = "compare"
    /\ UNCHANGED <<config, queries, btc, is_monitoring, slept, log, outcome, runs,
                   stops, ghost>>
SampleCpuUpTo(n) ==
    /\ pc = "sample"
    /\ CountEvents(log) < n
    /\ \E s \in Samples :
          /\ cpu_usage' = s
          /\ sampled' = Append(sampled, s)
    /\ pc' = "compare"
    /\ UNCHANGED <<config, aux, btc, is_monitoring, slept, log, outcome, runs, stops, ghost>>

SampleCpu == SampleCpuUpTo(MaxCycles)

\* line 52: psutil.cpu_percent raises (the OS query failed)
SampleCpuFails ==
    /\ pc = "sample"
    /\ HandleException("sample")
    /\ UNCHANGED <<config, aux, btc, cpu_usage, slept, runs, stops, ghost, sampled>>

\* lines 56-59: compare, then alert_high_cpu or the normal line
Evaluate ==
    /\ pc = "compare"
    /\ log' = Append(log, IF ExceedsThreshold(cpu_usage, cpu_threshold)
                            THEN alert_high_cpu(cpu_usage)
                            ELSE NormalEvent(cpu_usage))
    /\ afterStop' = IF stopAt = "none" THEN afterStop ELSE afterStop + 1
    /\ slept' = 0
    /\ pc' = "sleep"
    /\ UNCHANGED <<config, aux, btc, is_monitoring, cpu_usage, outcome, runs, stops,
                   stopAt, sampled>>

\* lines 53-59: strftime or print raises (an error that is no sample read)
EvaluateFails ==
    /\ pc = "compare"
    /\ HandleException("output")
    /\ UNCHANGED <<config, aux, btc, cpu_usage, slept, runs, stops, ghost, sampled>>

\* line 62: time.sleep(self.check_interval); a negative length raises
\* ValueError, otherwise the thread is suspended check_interval seconds
SleepReturnsAtOnce ==
    /\ pc = "sleep"
    /\ IF check_interval < 0
         THEN /\ HandleException("sleep")
              /\ UNCHANGED slept
         ELSE /\ slept' = slept /\ pc' = "loop_top"
              /\ UNCHANGED <<is_monitoring, log, outcome>>
    /\ UNCHANGED <<config, aux, btc, cpu_usage, runs, stops, ghost, sampled>>
SleepWakesOnStop ==
    /\ pc = "sleep"
    /\ IF check_interval < 0
         THEN /\ HandleException("sleep")
              /\ UNCHANGED slept
         ELSE /\ IF slept < check_interval /\ is_monitoring
                   THEN slept' = slept + 1 /\ pc' = "sleep"
                   ELSE slept' = slept /\ pc' = "loop_top"
              /\ UNCHANGED <<is_monitoring, log, outcome>>
    /\ UNCHANGED <<config, aux, btc, cpu_usage, runs, stops, ghost, sampled>>
Sleep ==
    /\ pc = "sleep"
    /\ IF check_interval < 0
         THEN /\ HandleException("sleep")
              /\ UNCHANGED slept
         ELSE /\ IF slept < check_interval
                   THEN slept' = slept + 1 /\ pc' = "sleep"
                   ELSE slept' = slept /\ pc' = "loop_top"
              /\ UNCHANGED <<is_monitoring, log, outcome>>
    /\ UNCHANGED <<config, aux, btc, cpu_usage, runs, stops, ghost, sampled>>

\* Ctrl+C while the thread is inside the try block (lines 49-62): the
\* blocking call or statement in progress is abandoned, line 64 catches it.
\* (The handlers of lines 64-69 are taken as one step each.)
InterruptInLoop ==
    /\ pc \in InLoop
    /\ HandleKeyboardInterrupt
    /\ UNCHANGED <<config, aux, btc, cpu_usage, slept, runs, stops, ghost, sampled>>

\* Ctrl+C at lines 45-47, before the try block: nothing catches it
InterruptBeforeTry ==
    /\ pc = "entered"
    /\ pc' = "raised"
    /\ outcome' = "uncaught"
    /\ UNCHANGED <<config, aux, btc, is_monitoring, cpu_usage, slept, log, runs, stops, ghost, sampled>>

\* lines 164-183: main has no try and no sys.exit: when monitor_system
\* returns the process ends with status 0, when an exception leaves it the
\* interpreter ends with a non-zero status
ExitStatus == IF outcome = "uncaught" THEN 1 ELSE 0

\* ---- the thread calling stop_monitoring -----------------------------------

\* lines 140-141
stop_monitoringPrintsOnly ==
    /\ stops < MaxStops
    /\ stops' = stops + 1
    /\ log' = Append(log, Entry("Stopped", 0, 0, 0, "stop"))
    /\ stopAt' = IF pc \in InRun THEN pc ELSE stopAt
    /\ afterStop' = IF pc \in InRun THEN 0 ELSE afterStop
    /\ UNCHANGED <<config, aux, btc, is_monitoring, pc, cpu_usage, slept, outcome,
                   runs, sampled>>
stop_monitoring ==
    /\ stops < MaxStops
    /\ stops' = stops + 1
    /\ is_monitoring' = FALSE
    /\ log' = Append(log, Entry("Stopped", 0, 0, 0, "stop"))
    /\ stopAt' = IF pc \in InRun THEN pc ELSE stopAt
    /\ afterStop' = IF pc \in InRun THEN 0 ELSE afterStop
    /\ UNCHANGED <<config, aux, btc, pc, cpu_usage, slept, outcome, runs, sampled>>

\* ---- other callers of the instance --------------------------------------------

\* lines 96-110: monitor_memory reads psutil.virtual_memory() and prints the
\* memory status block (one entry of the output, its figures left out)
monitor_memoryClearsFlag ==
    /\ queries < MaxQueries
    /\ queries' = queries + 1
    /\ log' = Append(log, Entry("Memory", 0, 0, 0, ""))
    /\ is_monitoring' = FALSE
    /\ UNCHANGED <<config, snapshots, btc, pc, cpu_usage, slept, outcome,
                   runs, stops, ghost, sampled>>
monitor_memory ==
    /\ queries < MaxQueries
    /\ queries' = queries + 1
    /\ log' = Append(log, Entry("Memory", 0, 0, 0, ""))
    /\ UNCHANGED <<config, snapshots, btc, is_monitoring, pc, cpu_usage, slept, outcome,
                   runs, stops, ghost, sampled>>

\* lines 112-131: get_system_info reads psutil and returns a dict to its
\* caller; it prints nothing and assigns no field
get_system_info ==
    /\ queries < MaxQueries
    /\ queries' = queries + 1
    /\ UNCHANGED <<config, snapshots, btc, is_monitoring, pc, cpu_usage, slept, log,
                   outcome, runs, stops, ghost, sampled>>

\* ---- the thread running monitor_system ---------------------------------------

\* a caller enters monitor_system (line 143; main, line 179) and line 150
\* prints the start line
monitor_system ==
    /\ pc \in {"idle", "returned", "raised"}
    /\ runs < MaxRuns
    /\ pc' = "system_info"
    /\ runs' = runs + 1
    /\ log' = Append(log, Entry("SystemStart", 0, 0, 0, ""))
    /\ outcome' = "none"
    /\ stopAt' = "none"
    /\ afterStop' = 0
    /\ sampled' = <<>>
    /\ snapshots' = 0
    /\ UNCHANGED <<config, queries, btc, is_monitoring, cpu_usage, slept, stops>>

\* lines 153-161: get_system_info is called, its result is printed, and
\* monitor_cpu is entered
SystemInfo ==
    /\ pc = "system_info"
    /\ snapshots' = snapshots + 1
    /\ log' = Append(log, Entry("SystemInfo", 0, 0, 0, ""))
    /\ pc' = "entered"
    /\ UNCHANGED <<config, queries, btc, is_monitoring, cpu_usage, slept, outcome,
                   runs, stops, ghost, sampled>>

\* Ctrl+C at lines 150-158: monitor_system has no try block
InterruptInMonitorSystem ==
    /\ pc = "system_info"
    /\ pc' = "raised"
    /\ outcome' = "uncaught"
    /\ UNCHANGED <<config, aux, btc, is_monitoring, cpu_usage, slept, log, runs, stops,
                   ghost, sampled>>

\* ---- BitcoinPriceAgent.fetch_bitcoin_price -----------------------------------

\* line 41: response.status_code == 200
StatusOkBelow500(st) == st < 500
StatusOk(st) == st = 200

\* a caller enters fetch_bitcoin_price (line 24; main, line 79)
Fetch ==
    /\ btc_pc \in {"idle", "done"}
    /\ fetches < MaxFetches
    /\ fetches' = fetches + 1
    /\ response' = NoResponse
    /\ btc_out' = <<>>
    /\ btc_pc' = "request"
    /\ UNCHANGED monitor

\* line 38 raises a RequestException; lines 54-56 print the network error
RequestFails ==
    /\ btc_pc = "request"
    /\ response' = Resp("exception", 0, TRUE, JNull)
    /\ btc_out' = Append(btc_out, [kind |-> "Network"])
    /\ btc_pc' = "done"
    /\ UNCHANGED <<monitor, fetches>>

\* line 38 returns a response
RequestReturns ==
    /\ btc_pc = "request"
    /\ \E st \in Statuses, wf \in BOOLEAN, d \in Bodies :
          response' = Resp("http", st, wf, d)
    /\ btc_pc' = "check"
    /\ UNCHANGED <<monitor, btc_out, fetches>>

\* line 41, and lines 50-53 for a status that is not 200
CheckStatus ==
    /\ btc_pc = "check"
    /\ IF StatusOk(response.status)
         THEN /\ btc_pc' = "parse"
              /\ UNCHANGED btc_out
         ELSE /\ btc_out' = btc_out \o <<[kind |-> "ApiFailed", status |-> response.status],
                                        [kind |-> "ApiHint"]>>
              /\ btc_pc' = "done"
    /\ UNCHANGED <<monitor, response, fetches>>

\* line 43: response.json(); a body that is no JSON raises JSONDecodeError,
\* which is a RequestException in requests >= 2.27 (lines 54-56) and a plain
\* ValueError before (lines 60-62)
ParseJson ==
    /\ btc_pc = "parse"
    /\ IF response.well_formed
         THEN /\ btc_pc' = "extract"
              /\ UNCHANGED btc_out
         ELSE /\ \E k \in {"Network", "Unexpected"} :
                    btc_out' = Append(btc_out, [kind |-> k])
              /\ btc_pc' = "done"
    /\ UNCHANGED <<monitor, response, fetches>>

\* lines 46-49, and the handlers of lines 57-62 for what line 46 raises
Extract ==
    /\ btc_pc = "extract"
    /\ LET bitcoin_price ==
              Lookup(Lookup(Lookup(response.data, "bpi"), "USD"), "rate_float")
       IN  btc_out' = Append(btc_out,
              IF bitcoin_price.type # "raised"
                THEN [kind |-> "Price", price |-> bitcoin_price]
              ELSE IF bitcoin_price.error = "KeyError"
                THEN [kind |-> "Parse"]
              ELSE [kind |-> "Unexpected"])
    /\ btc_pc' = "done"
    /\ UNCHANGED <<monitor, response, fetches>>

NextBtc ==
    \/ Fetch
    \/ RequestFails
    \/ RequestReturns
    \/ CheckStatus
    \/ ParseJson
    \/ Extract

SpecBtc == Init /\ [][NextBtc]_vars

Next ==
    \/ Call
    \/ Start
    \/ LoopTop
    \/ SampleCpu
    \/ SampleCpuFails
    \/ Evaluate
    \/ EvaluateFails
    \/ Sleep
    \/ InterruptInLoop
    \/ InterruptBeforeTry
    \/ stop_monitoring

Spec == Init /\ [][Next]_vars

\* monitor_cpu left alone: no stop_monitoring, no interrupt, no failing call
\* other than line 62 itself, up to SeqCycles samples
NextSeq ==
    \/ Call
    \/ Start
    \/ LoopTop
    \/ SampleCpuUpTo(SeqCycles)
    \/ Evaluate
    \/ Sleep

SpecSeq == Init /\ [][NextSeq]_vars

\* a run with other callers of monitor_memory and get_system_info beside it
NextAux ==
    \/ Call
    \/ Start
    \/ LoopTop
    \/ SampleCpu
    \/ Evaluate
    \/ Sleep
    \/ stop_monitoring
    \/ monitor_memory
    \/ get_system_info

SpecAux == Init /\ [][NextAux]_vars

\* the instance driven as main drives it: every run is a monitor_system call
NextSys ==
    \/ monitor_system
    \/ SystemInfo
    \/ InterruptInMonitorSystem
    \/ Start
    \/ LoopTop
    \/ SampleCpu
    \/ Evaluate
    \/ Sleep
    \/ InterruptInLoop
    \/ stop_monitoring

SpecSys == Init /\ [][NextSys]_vars

\* ---- helpers of the properties ---------------------------------------------

Abs(x) == IF x >= 0 THEN x ELSE 0 - x

Alerts == {i \in DOMAIN log : log[i].kind = "Alert"}
Normals == {i \in DOMAIN log : log[i].kind = "Normal"}
Errors == {i \in DOMAIN log : log[i].kind = "Error"}
Cancellations == {i \in DOMAIN log : log[i].kind = "Cancelled"}

\* the cause printed by the last "Error during monitoring" line
LastErrorCause ==
    IF Errors = {} THEN "none"
    ELSE log[CHOOSE i \in Errors : \A j \in Errors : j <= i].cause

\* the Normal and Alert lines printed so far, in order
Events == SelectSeq(log, IsEvent)

\* ---- C1 ---------------------------------------------------------------------
\* C1: every event printed for a sample S against the threshold T is an Alert
\* if and only if S > T; for S <= T, equality included, it is a Normal line.
C1_AlertIffAbove ==
    /\ \A i \in Alerts : log[i].sample > cpu_threshold
    /\ \A i \in Normals : log[i].sample <= cpu_threshold

\* a Normal line for a sample equal to the threshold, next to an Alert
C1_Witness ==
    /\ \E i \in Normals : log[i].sample = cpu_threshold
    /\ Alerts # {}

\* ---- C2 ---------------------------------------------------------------------
\* C2 as stated: after stop_monitoring is called at any point of an invocation
\* of monitor_cpu, its first statements included, at most the event of the
\* sample in flight is printed (checked on monitors with a positive
\* check_interval).
C2_NoEventsAfterAnyStop ==
    (check_interval > 0 /\ stopAt # "none") => afterStop <= 1

\* C2 amended: after stop_monitoring is called while the loop is running (the
\* assignment of line 45 done), only the event of a sample in flight is
\* printed: none when the call came at the loop top or during the sleep, at
\* most one when it came during the sample or the comparison.
C2_NoEventsAfterStopInLoop ==
    /\ stopAt \in {"loop_top", "sleep"} => afterStop = 0
    /\ stopAt \in {"sample", "compare"} => afterStop <= 1

\* stop_monitoring came during the sample, that sample's event was printed and
\* the run ended at the next loop top
C2_Witness ==
    /\ stopAt = "sample"
    /\ afterStop = 1
    /\ outcome = "stopped"

\* ---- C3 ---------------------------------------------------------------------
\* C3: a failed sample read is reported and the loop goes on: the step that
\* prints the error of a failed psutil.cpu_percent leaves the run inside the
\* loop with is_monitoring as it was (checked on monitors with a positive
\* check_interval).
C3_SampleFailureContinues ==
    [][(check_interval > 0 /\ pc = "sample" /\ Len(log') = Len(log) + 1
          /\ log'[Len(log')].kind = "Error")
        => (pc' \in InLoop /\ is_monitoring' = is_monitoring)]_vars

\* ---- C4 ---------------------------------------------------------------------
\* C4: a monitor whose check_interval is <= 0 never runs: it is never inside
\* the loop of monitor_cpu and never prints an event.
C4_NonPositiveIntervalNeverRuns ==
    check_interval <= 0 => (pc \notin InLoop /\ Alerts \cup Normals = {})

\* ---- C5 ---------------------------------------------------------------------
\* C5 as stated: a run is ended by a cancellation, stop request or interrupt,
\* only from the loop top, never from the middle of a sample or a sleep
\* (checked on monitors with a positive check_interval).
C5_CancellationOnlyAtLoopTop ==
    [][(check_interval > 0 /\ outcome = "none"
          /\ outcome' \in {"stopped", "interrupted"})
        => pc = "loop_top"]_vars

\* C5 amended: a stop request is observed only at the loop top: the call of
\* stop_monitoring moves nothing of the running cycle, a sleep ends only when
\* check_interval seconds have elapsed, and the run ends as stopped only from
\* the loop top.  (A KeyboardInterrupt is not polled: it ends the run from
\* whatever step of the cycle it arrives in.)
C5_StopOnlyAtLoopTop ==
    [][(/\ ((outcome = "none" /\ outcome' = "stopped") => pc = "loop_top")
        /\ (stops' # stops =>
              (pc' = pc /\ slept' = slept /\ cpu_usage' = cpu_usage))
        /\ ((pc = "sleep" /\ pc' = "loop_top") => slept = check_interval))
      ]_vars

\* stop_monitoring came in the middle of a sleep of 2 seconds, and the run
\* ended as stopped with the sleep complete
C5_Witness ==
    /\ stopAt = "sleep"
    /\ outcome = "stopped"
    /\ check_interval = 2
    /\ slept = check_interval

\* ---- C6 ---------------------------------------------------------------------
\* C6: once stop_monitoring has been called during the sleep, no sample, event
\* or sleep begins: the run stays in that sleep, goes to the loop top only with
\* the whole check_interval elapsed, and returns from there.
C6_StopDuringSleepEndsRun ==
    stopAt = "sleep" =>
        /\ afterStop = 0
        /\ pc \in {"sleep", "loop_top", "returned"}
        /\ check_interval >= 0 => slept <= check_interval
        /\ (pc = "loop_top" \/ outcome = "stopped") => slept = check_interval

\* stop_monitoring came before the first second of the sleep had elapsed, and
\* the run is at the loop top after the whole sleep
C6_Witness ==
    /\ stopAt = "sleep"
    /\ pc = "loop_top"
    /\ check_interval = 2
    /\ ~is_monitoring

\* ---- C7 ---------------------------------------------------------------------
\* C7: no error raised inside the loop leaves monitor_cpu: from a position in
\* the try block the run never ends with an uncaught exception, and an end by
\* error or interrupt prints the line that names its kind.
C7_NoErrorLeavesRun ==
    [][((pc \in InLoop) =>
        (/\ pc' # "raised"
         /\ outcome' # "uncaught"
         /\ (outcome' = "error" =>
               (Len(log') = Len(log) + 1 /\ log'[Len(log')].kind = "Error"))
         /\ (outcome' = "interrupted" =>
               (Len(log') = Len(log) + 1 /\ log'[Len(log')].kind = "Cancelled"))))
      ]_vars

\* one run ended by a failed sample read and the next by an interrupt, both
\* returned
C7_Witness ==
    /\ pc = "returned"
    /\ \E i \in Errors : log[i].cause = "sample"
    /\ outcome = "interrupted"

\* ---- C8 ---------------------------------------------------------------------
\* C8: a run ended by an error that is no failed sample read has printed the
\* error, has returned, and has left is_monitoring false.
C8_FatalErrorStopsLoop ==
    (outcome = "error" /\ LastErrorCause \in {"output", "sleep"}) =>
        /\ pc = "returned"
        /\ ~is_monitoring

\* the ValueError of time.sleep with a negative check_interval ended the run
\* after its first event
C8_Witness ==
    /\ outcome = "error"
    /\ LastErrorCause = "sleep"
    /\ Alerts \cup Normals # {}

\* ---- C9 ---------------------------------------------------------------------
\* C9: a run ended by an interrupt inside the loop has printed the
\* cancellation, prints no event after it, and is in the state a run ended by
\* stop_monitoring is in: returned, is_monitoring false.
C9_InterruptExitsCleanly ==
    /\ outcome = "interrupted" =>
          /\ pc = "returned"
          /\ ~is_monitoring
          /\ Cancellations # {}
          /\ \E c \in Cancellations : \A i \in Alerts \cup Normals : i < c
    /\ outcome = "stopped" =>
          /\ pc = "returned"
          /\ ~is_monitoring

\* the interrupt came between a sample above the threshold and its alert: the
\* run ended with that alert never printed
C9_Witness ==
    /\ outcome = "interrupted"
    /\ cpu_usage > cpu_threshold
    /\ Alerts = {}

\* ---- C10 --------------------------------------------------------------------
\* C10 as stated: the excess printed by an Alert equals S - T exactly and is
\* strictly positive (checked on monitors with a positive check_interval).
C10_ExcessExact ==
    \A i \in Alerts : check_interval > 0 =>
        /\ log[i].excess * Unit = (log[i].sample - cpu_threshold) * 10
        /\ log[i].excess > 0

\* C10 amended: the excess printed by an Alert is S - T rounded to one decimal
\* place: it is within 0.05 of S - T and never negative, and S - T itself is
\* strictly positive.
C10_ExcessRounded ==
    \A i \in Alerts :
        /\ 2 * Abs(log[i].excess * Unit - (log[i].sample - cpu_threshold) * 10) <= Unit
        /\ log[i].excess >= 0
        /\ log[i].sample - cpu_threshold > 0

\* an Alert for a sample 1/Unit of a percent above the threshold, whose excess
\* prints as 0.0
C10_Witness ==
    \E i \in Alerts :
        /\ log[i].sample - cpu_threshold = 1
        /\ log[i].excess = 0

\* ---- C11 --------------------------------------------------------------------
\* C11: in a run with no stop, interrupt or error the events are the samples
\* in order, one event per sample, the event of the i-th sample an Alert if
\* that sample is above the threshold and a Normal line otherwise; every
\* sample after the first is taken with the whole check_interval slept since
\* the event before it; threshold 10 with samples 5, 15, 10 prints Normal,
\* Alert with excess 5.0, Normal.
C11_OneEventPerSampleInOrder ==
    Errors = {} =>
        /\ Len(Events) = Len(sampled) - (IF pc = "compare" THEN 1 ELSE 0)
        /\ \A i \in 1..Len(Events) :
              /\ Events[i].sample = sampled[i]
              /\ Events[i].kind = "Alert" <=> sampled[i] > cpu_threshold
        /\ (pc \in {"loop_top", "sample", "compare"} /\ Len(Events) >= 1)
              => slept = check_interval
        /\ (/\ cpu_threshold = 10 * Unit
            /\ sampled = <<5 * Unit, 15 * Unit, 10 * Unit>>
            /\ Len(Events) = 3)
              => /\ Events[1].kind = "Normal"
                 /\ Events[2].kind = "Alert"
                 /\ Events[2].excess = 50
                 /\ Events[3].kind = "Normal"

\* threshold 10, samples 5, 15, 10 taken 2 seconds apart, all three events
\* printed
C11_Witness ==
    /\ Errors = {}
    /\ cpu_threshold = 10 * Unit
    /\ check_interval = 2
    /\ sampled = <<5 * Unit, 15 * Unit, 10 * Unit>>
    /\ Len(Events) = 3

\* ---- C12 --------------------------------------------------------------------
\* the kind of the last line printed by one of the two handlers
LastEndKind ==
    LET ends == Errors \cup Cancellations
    IN  IF ends = {} THEN "none"
        ELSE log[CHOOSE i \in ends : \A j \in ends : j <= i].kind

\* C12 as stated: a run ended by an internal error ends with an error status,
\* one that differs from the status of a clean stop (checked on monitors with
\* a positive check_interval).
C12_ErrorStatusDiffers ==
    (check_interval > 0 /\ outcome = "error") => ExitStatus # 0

\* C12 amended: the two ends differ in the line printed and in nothing else:
\* after an interrupt the last handler line is the cancellation, after an
\* internal error it is the error line, and in both cases monitor_cpu has
\* returned, is_monitoring is false and the exit status is 0.
C12_EndsDifferOnlyInOutput ==
    /\ outcome = "interrupted" =>
          (LastEndKind = "Cancelled" /\ pc = "returned" /\ ~is_monitoring
             /\ ExitStatus = 0)
    /\ outcome = "error" =>
          (LastEndKind = "Error" /\ pc = "returned" /\ ~is_monitoring
             /\ ExitStatus = 0)

\* a run ended by an interrupt, then a run ended by an internal error
C12_Witness ==
    /\ outcome = "error"
    /\ Cancellations # {}
    /\ LastErrorCause = "output"

\* ---- C13 --------------------------------------------------------------------
\* the kinds of the lines printed by the current call
OutKinds == [i \in DOMAIN btc_out |-> btc_out[i].kind]

\* the body is a dict holding bpi, in it USD, in it rate_float
HasAllFields(d) ==
    /\ d.type = "object"
    /\ "bpi" \in DOMAIN d.fields
    /\ d.fields.bpi.type = "object"
    /\ "USD" \in DOMAIN d.fields.bpi.fields
    /\ d.fields.bpi.fields.USD.type = "object"
    /\ "rate_float" \in DOMAIN d.fields.bpi.fields.USD.fields

\* C13: every call of fetch_bitcoin_price ends returned with exactly one
\* outcome printed, whatever the HTTP call produced: the network error line
\* for a failed request, the two API failure lines for a status other than
\* 200, one error line for a 200 whose body is malformed or lacks a field,
\* and the price line only for a 200 whose body holds bpi, USD and
\* rate_float; nothing is printed before the call has its outcome.
C13_OneOutcomePerFetch ==
    /\ btc_pc \in {"idle", "request", "check", "parse", "extract", "done"}
    /\ btc_pc # "done" => btc_out = <<>>
    /\ btc_pc = "done" =>
          /\ OutKinds \in {<<"Price">>, <<"ApiFailed", "ApiHint">>, <<"Network">>,
                            <<"Parse">>, <<"Unexpected">>}
          /\ response.kind = "exception" => OutKinds = <<"Network">>
          /\ (response.kind = "http" /\ response.status # 200)
                => OutKinds = <<"ApiFailed", "ApiHint">>
          /\ OutKinds = <<"Price">> <=>
                /\ response.kind = "http"
                /\ response.status = 200
                /\ response.well_formed
                /\ HasAllFields(response.data)
          /\ OutKinds = <<"Price">> =>
                btc_out[1].price = response.data.fields.bpi.fields.USD.fields.rate_float

\* a second call that ended on a 200 whose body has no USD entry, with the
\* data parsing error printed
C13_Witness ==
    /\ fetches = 2
    /\ btc_pc = "done"
    /\ response.status = 200
    /\ response.well_formed
    /\ ~HasAllFields(response.data)
    /\ OutKinds = <<"Parse">>

\* ---- C14 --------------------------------------------------------------------
Starts == {i \in DOMAIN log : log[i].kind = "Start"}

Infos == {i \in DOMAIN log : log[i].kind = "SystemInfo"}

\* C15: a monitor_system call has queried the system snapshot zero times
\* before its report and exactly once from then on, through every cycle and
\* after the return; no sample is taken before the query, and the report of
\* the run precedes its start line and so all its events.
C15_SnapshotOnceBeforeSampling ==
    /\ pc = "system_info" => (snapshots = 0 /\ sampled = <<>>)
    /\ pc \in InRun \cup {"returned"} => snapshots = 1
    /\ sampled # <<>> => snapshots = 1
    /\ pc \in InLoop =>
          \E i \in Infos : /\ \A j \in Infos : j <= i
                           /\ \E k \in Starts : i < k /\ \A j \in Starts : j <= k

\* two cycles of a monitor_system run done, the snapshot queried and
\* reported once
C15_Witness ==
    /\ pc = "sleep"
    /\ Len(sampled) = 2
    /\ snapshots = 1
    /\ Cardinality(Infos) = 1

\* ---- C16 --------------------------------------------------------------------
Memories == {i \in DOMAIN log : log[i].kind = "Memory"}

\* C16: no step changes cpu_threshold or check_interval; is_monitoring
\* changes only in a step of monitor_cpu (line 45, or a step ending the run)
\* or of stop_monitoring; a step of monitor_memory or get_system_info, and
\* the comparison step that calls alert_high_cpu, leave all three fields as
\* they were.
C16_FieldsWrittenOnlyByStartStop ==
    [][(/\ config' = config
        /\ (is_monitoring' # is_monitoring) =>
              (\/ pc = "entered" /\ pc' = "loop_top"
               \/ pc \in InLoop /\ pc' = "returned"
               \/ stops' = stops + 1)
        /\ (queries' # queries) => (is_monitoring' = is_monitoring)
        /\ (pc = "compare" /\ pc' = "sleep") => (is_monitoring' = is_monitoring))]_vars

\* a run in progress has printed an alert, and another caller has called
\* monitor_memory or get_system_info during the run
C16_Witness ==
    /\ is_monitoring
    /\ pc \in InLoop
    /\ queries >= 1
    /\ \E i \in Memories : \E k \in Starts : k < i
    /\ \E i \in DOMAIN log : log[i].kind = "Alert"

\* ---- C17 --------------------------------------------------------------------
\* C17: a stop_monitoring that came before line 45 of the run leaves no trace
\* in it: inside the loop is_monitoring is false only when stop_monitoring
\* was called after line 45 of this run.
C17_EarlyStopForgotten ==
    (pc \in InLoop /\ ~is_monitoring) => stopAt \in InLoop

\* stop_monitoring was called between the entry of monitor_cpu and line 45,
\* and the run has printed two events since
C17_Witness ==
    /\ stopAt = "entered"
    /\ afterStop = 2
    /\ is_monitoring
====
